---- MODULE Spec2Model ----
(***************************************************************************)
(* Model of the color-palette-generator actions (src/src/actions/index.ts) *)
(* over the two tables of src/db/tables.ts.                                *)
(*                                                                         *)
(* Every request is a process.  Its steps are the points at which the      *)
(* handler touches the store (each awaited db call is one atomic step of   *)
(* the store) or reads the clock; the synchronous code between two awaits  *)
(* belongs to the step that follows it.  Requests interleave freely.       *)
(*                                                                         *)
(* An optional value (a zod .optional() field, an optional column, the     *)
(* user of the request context, the first row of a result) is a set with   *)
(* at most one element: {} is undefined / NULL, {v} is the value v.        *)
(***************************************************************************)
EXTENDS Integers, FiniteSets

VARIABLES ColorPalettes, PaletteColors, reqs, clock, issued

vars == <<ColorPalettes, PaletteColors, reqs, clock, issued>>

----------------------------------------------------------------------------
(* Bounds *)

MaxReqs == 2        \* requests of one behaviour (each slot serves one request)
MaxPalettes == 3    \* palette ids 1..MaxPalettes (seeded: 1, 2)
MaxColors == 3      \* color ids 1..MaxColors (seeded: 1, 2)
MaxPresent == 1     \* optional fields present in one request

Reqs == 1..MaxReqs
PaletteIds == 1..MaxPalettes
ColorIds == 1..MaxColors

----------------------------------------------------------------------------
(* Values *)

Users == {"u1", "u2"}
Contexts == {[user |-> {}]} \cup {[user |-> {u}] : u \in Users}

Opt(S) == {{}} \cup {{v} : v \in S}
Val(o) == CHOOSE v \in o : TRUE

CreateNames == {"", "Sunset"}
UpdateNames == {"", "Dusk"}
Texts == {"t"}
CreateHex == {"", "#FF5733"}
UpdateHex == {"", "#000000"}
Numbers == {7}

Count(o) == IF o = {} THEN 0 ELSE 1

----------------------------------------------------------------------------
(* Request inputs, as they arrive (before the schema is applied) *)

CreatePaletteInputs ==
    {i \in [name : CreateNames, description : Opt(Texts), sourceType : Opt(Texts),
            sourceReference : Opt(Texts), isFavorite : Opt(BOOLEAN),
            isSystem : Opt({TRUE})] :
        Count(i.description) + Count(i.sourceType) + Count(i.sourceReference)
          + Count(i.isFavorite) + Count(i.isSystem) <= MaxPresent}

UpdatePaletteInputs ==
    {i \in [id : PaletteIds, name : Opt(UpdateNames), description : Opt(Texts),
            sourceType : Opt(Texts), sourceReference : Opt(Texts),
            isFavorite : Opt(BOOLEAN)] :
        Count(i.name) + Count(i.description) + Count(i.sourceType)
          + Count(i.sourceReference) + Count(i.isFavorite) <= MaxPresent}

ListPalettesInputs == [favoritesOnly : BOOLEAN]

CreatePaletteColorInputs ==
    {i \in [paletteId : PaletteIds, orderIndex : Opt(Numbers), hexValue : CreateHex,
            role : Opt(Texts), label : Opt(Texts), contrastOnLight : Opt(Numbers),
            contrastOnDark : Opt(Numbers)] :
        Count(i.orderIndex) + Count(i.role) + Count(i.label)
          + Count(i.contrastOnLight) + Count(i.contrastOnDark) <= MaxPresent}

UpdatePaletteColorInputs ==
    {i \in [id : ColorIds, paletteId : PaletteIds, orderIndex : Opt(Numbers),
            hexValue : Opt(UpdateHex), role : Opt(Texts), label : Opt(Texts),
            contrastOnLight : Opt(Numbers), contrastOnDark : Opt(Numbers)] :
        Count(i.orderIndex) + Count(i.hexValue) + Count(i.role) + Count(i.label)
          + Count(i.contrastOnLight) + Count(i.contrastOnDark) <= MaxPresent}

DeletePaletteColorInputs == [id : ColorIds, paletteId : PaletteIds]

ListPaletteColorsInputs == [paletteId : PaletteIds]

----------------------------------------------------------------------------
(* Input schemas: validation runs before the handler body *)

createPaletteSchema(i) == i.name # ""

\* The refine of updatePalette testing the fields for truthiness.
updatePaletteSchema_Truthy(i) ==
    \/ i.name \notin {{}, {""}}
    \/ i.description \notin {{}, {""}}
    \/ i.sourceType \notin {{}, {""}}
    \/ i.sourceReference \notin {{}, {""}}
    \/ i.isFavorite = {TRUE}

updatePaletteSchema(i) ==
    \/ i.name # {}
    \/ i.description # {}
    \/ i.sourceType # {}
    \/ i.sourceReference # {}
    \/ i.isFavorite # {}

createPaletteColorSchema(i) == i.hexValue # ""

updatePaletteColorSchema(i) ==
    \/ i.orderIndex # {}
    \/ i.hexValue # {}
    \/ i.role # {}
    \/ i.label # {}
    \/ i.contrastOnLight # {}
    \/ i.contrastOnDark # {}

----------------------------------------------------------------------------
(* Responses *)

NoData == [rows |-> {}, total |-> {}]

Failure(code, message) ==
    [success |-> FALSE, code |-> code, message |-> message, data |-> NoData]

Success(rows, total) ==
    [success |-> TRUE, code |-> "OK", message |-> "",
     data |-> [rows |-> rows, total |-> total]]

ValidationError == Failure("BAD_REQUEST", "Failed to validate")

Pending == [success |-> FALSE, code |-> "PENDING", message |-> "", data |-> NoData]

----------------------------------------------------------------------------
(* Identity gate and ownership resolver *)

\* requireUser without its `if (!user) throw`.
requireUser_NoThrow(context) ==
    Success({[id |-> IF context.user = {} THEN "undefined" ELSE Val(context.user)]}, {})

requireUser(context) ==
    IF context.user = {}
      THEN Failure("UNAUTHORIZED", "You must be signed in to perform this action.")
      ELSE Success({[id |-> Val(context.user)]}, {})

\* getOwnedPalette refusing every caller but the owner (no isSystem exception).
getOwnedPalette_OwnerOnly(paletteId, userId) ==
    LET found == {p \in ColorPalettes : p.id = paletteId}
    IN  IF found = {}
          THEN Failure("NOT_FOUND", "Palette not found.")
          ELSE LET palette == CHOOSE p \in found : TRUE
               IN  IF palette.userId # userId
                     THEN Failure("FORBIDDEN", "You do not have access to this palette.")
                     ELSE Success({palette}, {})

\* getOwnedPalette without its NOT_FOUND check.
getOwnedPalette_NoNotFound(paletteId, userId) ==
    LET found == {p \in ColorPalettes : p.id = paletteId}
    IN  IF \E p \in found : p.userId # userId /\ ~p.isSystem
          THEN Failure("FORBIDDEN", "You do not have access to this palette.")
          ELSE Success(found, {})

\* getOwnedPalette without its FORBIDDEN check.
getOwnedPalette_NoOwnerCheck(paletteId, userId) ==
    LET found == {p \in ColorPalettes : p.id = paletteId}
    IN  IF found = {}
          THEN Failure("NOT_FOUND", "Palette not found.")
          ELSE Success({CHOOSE p \in found : TRUE}, {})

getOwnedPalette(paletteId, userId) ==
    LET found == {p \in ColorPalettes : p.id = paletteId}
    IN  IF found = {}
          THEN Failure("NOT_FOUND", "Palette not found.")
          ELSE LET palette == CHOOSE p \in found : TRUE
               IN  IF palette.userId # userId /\ ~palette.isSystem
                     THEN Failure("FORBIDDEN", "You do not have access to this palette.")
                     ELSE Success({palette}, {})

----------------------------------------------------------------------------
(* Requests *)

Idle ==
    [pc |-> "idle", op |-> "none", context |-> [user |-> {}], input |-> [id |-> 0],
     now |-> 0, dbCalls |-> 0, result |-> Pending]

\* A request that has entered the given operation and stands at `pc`.
Started(op, context, input, pc, now, dbCalls, result) ==
    [pc |-> pc, op |-> op, context |-> context, input |-> input,
     now |-> now, dbCalls |-> dbCalls, result |-> result]

\* Date(): the clock never goes backwards; a reading is the value read.
ClockReadings == {clock, clock + 1}

\* crypto.randomUUID(): an id no row has or ever had.  Palettes are never
\* deleted; `issued` remembers the ids of colors, which are.
\* Requests can name the ids 1..MaxPalettes and 1..MaxColors; the pools are
\* large enough for every request of a behaviour to create a row.
PaletteUuids == 1..(MaxPalettes + MaxReqs - 1)
ColorUuids == 1..(MaxColors + MaxReqs - 1)
FreshPaletteIds == {id \in PaletteUuids : \A p \in ColorPalettes : p.id # id}
FreshColorIds == ColorUuids \ issued

----------------------------------------------------------------------------
(* createPalette *)

\* createPalette storing a second clock reading as updatedAt.
NewPalette_TwoReadings(id, userId, input, now) ==
    [id |-> id, userId |-> userId, name |-> input.name,
     description |-> input.description, sourceType |-> input.sourceType,
     sourceReference |-> input.sourceReference,
     isFavorite |-> IF input.isFavorite # {} THEN Val(input.isFavorite) ELSE FALSE,
     isSystem |-> FALSE, createdAt |-> now, updatedAt |-> clock]

\* createPalette storing `isSystem: input.isSystem ?? false`.
NewPalette_InputIsSystem(id, userId, input, now) ==
    [id |-> id, userId |-> userId, name |-> input.name,
     description |-> input.description, sourceType |-> input.sourceType,
     sourceReference |-> input.sourceReference,
     isFavorite |-> IF input.isFavorite # {} THEN Val(input.isFavorite) ELSE FALSE,
     isSystem |-> IF input.isSystem # {} THEN Val(input.isSystem) ELSE FALSE,
     createdAt |-> now, updatedAt |-> now]

\* createPalette stamping createdAt with a reading taken at the insert.
NewPalette_CreatedLater(id, userId, input, now) ==
    [id |-> id, userId |-> userId, name |-> input.name,
     description |-> input.description, sourceType |-> input.sourceType,
     sourceReference |-> input.sourceReference,
     isFavorite |-> IF input.isFavorite # {} THEN Val(input.isFavorite) ELSE FALSE,
     isSystem |-> FALSE, createdAt |-> clock, updatedAt |-> now]

NewPalette(id, userId, input, now) ==
    [id |-> id,
     userId |-> userId,
     name |-> input.name,
     description |-> input.description,
     sourceType |-> input.sourceType,
     sourceReference |-> input.sourceReference,
     isFavorite |-> IF input.isFavorite # {} THEN Val(input.isFavorite) ELSE FALSE,
     isSystem |-> FALSE,
     createdAt |-> now,
     updatedAt |-> now]

\* Validation, the identity gate and `const now = new Date()`.
createPalette_call(r) ==
    /\ reqs[r].pc = "idle"
    /\ \E context \in Contexts, input \in CreatePaletteInputs, now \in ClockReadings :
         LET user == requireUser(context)
         IN  IF ~createPaletteSchema(input)
               THEN /\ reqs' = [reqs EXCEPT ![r] =
                          Started("createPalette", context, input, "done", 0, 0,
                                  ValidationError)]
                    /\ clock' = clock
               ELSE IF ~user.success
               THEN /\ reqs' = [reqs EXCEPT ![r] =
                          Started("createPalette", context, input, "done", 0, 0, user)]
                    /\ clock' = clock
               ELSE /\ reqs' = [reqs EXCEPT ![r] =
                          Started("createPalette", context, input, "insert", now, 0,
                                  Pending)]
                    /\ clock' = now
    /\ UNCHANGED <<ColorPalettes, PaletteColors, issued>>

\* db.insert(ColorPalettes).values({...}).returning()
createPalette_insert(r) ==
    /\ reqs[r].pc = "insert"
    /\ reqs[r].op = "createPalette"
    /\ \E id \in FreshPaletteIds :
         LET user == Val(requireUser(reqs[r].context).data.rows)
             palette == NewPalette(id, user.id, reqs[r].input, reqs[r].now)
         IN  /\ ColorPalettes' = ColorPalettes \cup {palette}
             /\ reqs' = [reqs EXCEPT ![r].pc = "done",
                                     ![r].dbCalls = @ + 1,
                                     ![r].result = Success({palette}, {})]
    /\ UNCHANGED <<PaletteColors, clock, issued>>

----------------------------------------------------------------------------
(* updatePalette *)

\* updatePalette flipping the stored isFavorite when the request carries one.
PaletteSet_Toggle(row, input, now) ==
    [row EXCEPT
       !.name = IF input.name # {} THEN Val(input.name) ELSE @,
       !.description = IF input.description # {} THEN input.description ELSE @,
       !.sourceType = IF input.sourceType # {} THEN input.sourceType ELSE @,
       !.sourceReference = IF input.sourceReference # {} THEN input.sourceReference ELSE @,
       !.isFavorite = IF input.isFavorite # {} THEN ~@ ELSE @,
       !.updatedAt = now]

\* updatePalette writing every updatable column, present in the request or not.
PaletteSet_Unconditional(row, input, now) ==
    [row EXCEPT
       !.name = IF input.name # {} THEN Val(input.name) ELSE @,
       !.description = input.description,
       !.sourceType = input.sourceType,
       !.sourceReference = input.sourceReference,
       !.isFavorite = IF input.isFavorite # {} THEN Val(input.isFavorite) ELSE FALSE,
       !.updatedAt = now]

\* The .set({...}) object of updatePalette applied to the matching row.
PaletteSet(row, input, now) ==
    [row EXCEPT
       !.name = IF input.name # {} THEN Val(input.name) ELSE @,
       !.description = IF input.description # {} THEN input.description ELSE @,
       !.sourceType = IF input.sourceType # {} THEN input.sourceType ELSE @,
       !.sourceReference = IF input.sourceReference # {} THEN input.sourceReference ELSE @,
       !.isFavorite = IF input.isFavorite # {} THEN Val(input.isFavorite) ELSE @,
       !.updatedAt = now]

\* Validation, the identity gate and getOwnedPalette(input.id, user.id).
updatePalette_call(r) ==
    /\ reqs[r].pc = "idle"
    /\ \E context \in Contexts, input \in UpdatePaletteInputs :
         LET user == requireUser(context)
         IN  reqs' = [reqs EXCEPT ![r] =
               IF ~updatePaletteSchema(input)
                 THEN Started("updatePalette", context, input, "done", 0, 0,
                              ValidationError)
               ELSE IF ~user.success
                 THEN Started("updatePalette", context, input, "done", 0, 0, user)
               ELSE LET palette == getOwnedPalette(input.id, Val(user.data.rows).id)
                    IN  IF ~palette.success
                          THEN Started("updatePalette", context, input, "done", 0, 1,
                                       palette)
                          ELSE Started("updatePalette", context, input, "set", 0, 1,
                                       Pending)]
    /\ UNCHANGED <<ColorPalettes, PaletteColors, clock, issued>>

\* The update statement is built: `updatedAt: new Date()` reads the clock.
updatePalette_set(r) ==
    /\ reqs[r].pc = "set"
    /\ reqs[r].op = "updatePalette"
    /\ \E now \in ClockReadings :
         /\ reqs' = [reqs EXCEPT ![r].pc = "update", ![r].now = now]
         /\ clock' = now
    /\ UNCHANGED <<ColorPalettes, PaletteColors, issued>>

\* db.update(ColorPalettes).set(...).where(eq(ColorPalettes.id, input.id)).returning()
updatePalette_update(r) ==
    /\ reqs[r].pc = "update"
    /\ reqs[r].op = "updatePalette"
    /\ LET input == reqs[r].input
           matching == {p \in ColorPalettes : p.id = input.id}
           updated == {PaletteSet(p, input, reqs[r].now) : p \in matching}
       IN  /\ ColorPalettes' = (ColorPalettes \ matching) \cup updated
           /\ reqs' = [reqs EXCEPT ![r].pc = "done",
                                   ![r].dbCalls = @ + 1,
                                   ![r].result = Success(updated, {})]
    /\ UNCHANGED <<PaletteColors, clock, issued>>

----------------------------------------------------------------------------
(* listPalettes *)

\* listPalettes combining the owner and system conditions with `and`.
ListPalettesFilter_And(p, userId, favoritesOnly) ==
    /\ (p.userId = userId /\ p.isSystem = TRUE)
    /\ (favoritesOnly => p.isFavorite = TRUE)

\* The where clause of listPalettes.
ListPalettesFilter(p, userId, favoritesOnly) ==
    /\ (p.userId = userId \/ p.isSystem = TRUE)
    /\ (favoritesOnly => p.isFavorite = TRUE)

listPalettes_call(r) ==
    /\ reqs[r].pc = "idle"
    /\ \E context \in Contexts, input \in ListPalettesInputs :
         LET user == requireUser(context)
         IN  reqs' = [reqs EXCEPT ![r] =
               IF ~user.success
                 THEN Started("listPalettes", context, input, "done", 0, 0, user)
               ELSE LET palettes == {p \in ColorPalettes :
                           ListPalettesFilter(p, Val(user.data.rows).id,
                                              input.favoritesOnly)}
                    IN  Started("listPalettes", context, input, "done", 0, 1,
                                Success(palettes, {Cardinality(palettes)}))]
    /\ UNCHANGED <<ColorPalettes, PaletteColors, clock, issued>>

----------------------------------------------------------------------------
(* createPaletteColor *)

NewColor(id, input, now) ==
    [id |-> id,
     paletteId |-> input.paletteId,
     orderIndex |-> input.orderIndex,
     hexValue |-> input.hexValue,
     role |-> input.role,
     label |-> input.label,
     contrastOnLight |-> input.contrastOnLight,
     contrastOnDark |-> input.contrastOnDark,
     createdAt |-> now]

\* Validation, the identity gate and getOwnedPalette(input.paletteId, user.id).
createPaletteColor_call(r) ==
    /\ reqs[r].pc = "idle"
    /\ \E context \in Contexts, input \in CreatePaletteColorInputs :
         LET user == requireUser(context)
         IN  reqs' = [reqs EXCEPT ![r] =
               IF ~createPaletteColorSchema(input)
                 THEN Started("createPaletteColor", context, input, "done", 0, 0,
                              ValidationError)
               ELSE IF ~user.success
                 THEN Started("createPaletteColor", context, input, "done", 0, 0, user)
               ELSE LET palette == getOwnedPalette(input.paletteId,
                                                   Val(user.data.rows).id)
                    IN  IF ~palette.success
                          THEN Started("createPaletteColor", context, input, "done", 0,
                                       1, palette)
                          ELSE Started("createPaletteColor", context, input, "values",
                                       0, 1, Pending)]
    /\ UNCHANGED <<ColorPalettes, PaletteColors, clock, issued>>

\* The values({...}) object is built: `createdAt: new Date()` reads the clock.
createPaletteColor_values(r) ==
    /\ reqs[r].pc = "values"
    /\ reqs[r].op = "createPaletteColor"
    /\ \E now \in ClockReadings :
         /\ reqs' = [reqs EXCEPT ![r].pc = "insert", ![r].now = now]
         /\ clock' = now
    /\ UNCHANGED <<ColorPalettes, PaletteColors, issued>>

\* db.insert(PaletteColors).values({...}).returning()
createPaletteColor_insert(r) ==
    /\ reqs[r].pc = "insert"
    /\ reqs[r].op = "createPaletteColor"
    /\ \E id \in FreshColorIds :
         LET color == NewColor(id, reqs[r].input, reqs[r].now)
         IN  /\ PaletteColors' = PaletteColors \cup {color}
             /\ issued' = issued \cup {id}
             /\ reqs' = [reqs EXCEPT ![r].pc = "done",
                                     ![r].dbCalls = @ + 1,
                                     ![r].result = Success({color}, {})]
    /\ UNCHANGED <<ColorPalettes, clock>>

----------------------------------------------------------------------------
(* updatePaletteColor *)

\* updatePaletteColor writing every optional column, present or not.
ColorSet_Unconditional(row, input) ==
    [row EXCEPT
       !.orderIndex = input.orderIndex,
       !.hexValue = IF input.hexValue # {} THEN Val(input.hexValue) ELSE @,
       !.role = input.role,
       !.label = input.label,
       !.contrastOnLight = input.contrastOnLight,
       !.contrastOnDark = input.contrastOnDark]

\* The .set({...}) object of updatePaletteColor applied to a matching row.
ColorSet(row, input) ==
    [row EXCEPT
       !.orderIndex = IF input.orderIndex # {} THEN input.orderIndex ELSE @,
       !.hexValue = IF input.hexValue # {} THEN Val(input.hexValue) ELSE @,
       !.role = IF input.role # {} THEN input.role ELSE @,
       !.label = IF input.label # {} THEN input.label ELSE @,
       !.contrastOnLight = IF input.contrastOnLight # {} THEN input.contrastOnLight ELSE @,
       !.contrastOnDark = IF input.contrastOnDark # {} THEN input.contrastOnDark ELSE @]

\* The same lookup with the paletteId condition left out.
ColorsByIdOnly(id, paletteId) == {c \in PaletteColors : c.id = id}

\* The pre-read and the delete matching on paletteId alone.
ColorsByPaletteOnly(id, paletteId) == {c \in PaletteColors : c.paletteId = paletteId}

\* Rows of PaletteColors with the given id and paletteId (update's pre-read,
\* delete's where clause).
ColorsByIdAndPalette(id, paletteId) ==
    {c \in PaletteColors : c.id = id /\ c.paletteId = paletteId}

\* Rows the update statement of updatePaletteColor writes: where id = input.id.
UpdateColorTargets(input) == {c \in PaletteColors : c.id = input.id}

\* Validation, the identity gate and getOwnedPalette(input.paletteId, user.id).
updatePaletteColor_call(r) ==
    /\ reqs[r].pc = "idle"
    /\ \E context \in Contexts, input \in UpdatePaletteColorInputs :
         LET user == requireUser(context)
         IN  reqs' = [reqs EXCEPT ![r] =
               IF ~updatePaletteColorSchema(input)
                 THEN Started("updatePaletteColor", context, input, "done", 0, 0,
                              ValidationError)
               ELSE IF ~user.success
                 THEN Started("updatePaletteColor", context, input, "done", 0, 0, user)
               ELSE LET palette == getOwnedPalette(input.paletteId,
                                                   Val(user.data.rows).id)
                    IN  IF ~palette.success
                          THEN Started("updatePaletteColor", context, input, "done", 0,
                                       1, palette)
                          ELSE Started("updatePaletteColor", context, input, "select",
                                       0, 1, Pending)]
    /\ UNCHANGED <<ColorPalettes, PaletteColors, clock, issued>>

\* const [existing] = select ... where id and paletteId; NOT_FOUND when absent.
updatePaletteColor_select(r) ==
    /\ reqs[r].pc = "select"
    /\ reqs[r].op = "updatePaletteColor"
    /\ LET existing == ColorsByIdAndPalette(reqs[r].input.id, reqs[r].input.paletteId)
       IN  reqs' = [reqs EXCEPT
             ![r].dbCalls = @ + 1,
             ![r].pc = IF existing = {} THEN "done" ELSE "update",
             ![r].result = IF existing = {}
                             THEN Failure("NOT_FOUND", "Palette color not found.")
                             ELSE @]
    /\ UNCHANGED <<ColorPalettes, PaletteColors, clock, issued>>

\* db.update(PaletteColors).set(...).where(eq(PaletteColors.id, input.id)).returning()
updatePaletteColor_update(r) ==
    /\ reqs[r].pc = "update"
    /\ reqs[r].op = "updatePaletteColor"
    /\ LET input == reqs[r].input
           matching == UpdateColorTargets(input)
           updated == {ColorSet(c, input) : c \in matching}
       IN  /\ PaletteColors' = (PaletteColors \ matching) \cup updated
           /\ reqs' = [reqs EXCEPT ![r].pc = "done",
                                   ![r].dbCalls = @ + 1,
                                   ![r].result = Success(updated, {})]
    /\ UNCHANGED <<ColorPalettes, clock, issued>>

----------------------------------------------------------------------------
(* deletePaletteColor *)

\* deletePaletteColor with the rowsAffected test inverted.
DeleteOutcome_Inverted(rowsAffected) ==
    IF rowsAffected # 0
      THEN Failure("NOT_FOUND", "Palette color not found.")
      ELSE Success({}, {})

\* deletePaletteColor answering success whatever the delete affected.
DeleteOutcome_Unchecked(rowsAffected) == Success({}, {})

\* if (result.rowsAffected === 0) throw NOT_FOUND; return { success: true }
DeleteOutcome(rowsAffected) ==
    IF rowsAffected = 0
      THEN Failure("NOT_FOUND", "Palette color not found.")
      ELSE Success({}, {})

\* Validation, the identity gate and getOwnedPalette(input.paletteId, user.id).
deletePaletteColor_call(r) ==
    /\ reqs[r].pc = "idle"
    /\ \E context \in Contexts, input \in DeletePaletteColorInputs :
         LET user == requireUser(context)
         IN  reqs' = [reqs EXCEPT ![r] =
               IF ~user.success
                 THEN Started("deletePaletteColor", context, input, "done", 0, 0, user)
               ELSE LET palette == getOwnedPalette(input.paletteId,
                                                   Val(user.data.rows).id)
                    IN  IF ~palette.success
                          THEN Started("deletePaletteColor", context, input, "done", 0,
                                       1, palette)
                          ELSE Started("deletePaletteColor", context, input, "delete",
                                       0, 1, Pending)]
    /\ UNCHANGED <<ColorPalettes, PaletteColors, clock, issued>>

\* db.delete(PaletteColors).where(id and paletteId); NOT_FOUND when rowsAffected = 0.
deletePaletteColor_delete(r) ==
    /\ reqs[r].pc = "delete"
    /\ reqs[r].op = "deletePaletteColor"
    /\ LET deleted == ColorsByIdAndPalette(reqs[r].input.id, reqs[r].input.paletteId)
           rowsAffected == Cardinality(deleted)
       IN  /\ PaletteColors' = PaletteColors \ deleted
           /\ reqs' = [reqs EXCEPT
                 ![r].pc = "done",
                 ![r].dbCalls = @ + 1,
                 ![r].result = DeleteOutcome(rowsAffected)]
    /\ UNCHANGED <<ColorPalettes, clock, issued>>

----------------------------------------------------------------------------
(* listPaletteColors *)

\* Validation, the identity gate and getOwnedPalette(input.paletteId, user.id).
listPaletteColors_call(r) ==
    /\ reqs[r].pc = "idle"
    /\ \E context \in Contexts, input \in ListPaletteColorsInputs :
         LET user == requireUser(context)
         IN  reqs' = [reqs EXCEPT ![r] =
               IF ~user.success
                 THEN Started("listPaletteColors", context, input, "done", 0, 0, user)
               ELSE LET palette == getOwnedPalette(input.paletteId,
                                                   Val(user.data.rows).id)
                    IN  IF ~palette.success
                          THEN Started("listPaletteColors", context, input, "done", 0,
                                       1, palette)
                          ELSE Started("listPaletteColors", context, input, "select",
                                       0, 1, Pending)]
    /\ UNCHANGED <<ColorPalettes, PaletteColors, clock, issued>>

\* listPaletteColors selecting without its where clause.
ColorsOfPalette_NoWhere(paletteId) == PaletteColors

\* select().from(PaletteColors).where(eq(PaletteColors.paletteId, input.paletteId))
ColorsOfPalette(paletteId) == {c \in PaletteColors : c.paletteId = paletteId}

\* const colors = await db.select()...; return { items: colors, total: colors.length }
listPaletteColors_select(r) ==
    /\ reqs[r].pc = "select"
    /\ reqs[r].op = "listPaletteColors"
    /\ LET colors == ColorsOfPalette(reqs[r].input.paletteId)
       IN  reqs' = [reqs EXCEPT ![r].pc = "done",
                                ![r].dbCalls = @ + 1,
                                ![r].result = Success(colors, {Cardinality(colors)})]
    /\ UNCHANGED <<ColorPalettes, PaletteColors, clock, issued>>

----------------------------------------------------------------------------

SeedPalette(id, userId, name, isFavorite, isSystem, updatedAt) ==
    [id |-> id, userId |-> userId, name |-> name, description |-> {},
     sourceType |-> {}, sourceReference |-> {}, isFavorite |-> isFavorite,
     isSystem |-> isSystem, createdAt |-> 0, updatedAt |-> updatedAt]

SeedColor(id, paletteId, hexValue) ==
    [id |-> id, paletteId |-> paletteId, orderIndex |-> {}, hexValue |-> hexValue,
     role |-> {}, label |-> {}, contrastOnLight |-> {}, contrastOnDark |-> {},
     createdAt |-> 0]

\* The pre-seeded store: a palette of u1 with one color, and a system palette
\* (a favorite of its owner u2, updated once since its creation) with one color.
SeedColorPalettes ==
    {SeedPalette(1, "u1", "Sunset", FALSE, FALSE, 0),
     SeedPalette(2, "u2", "Brand", TRUE, TRUE, 1)}

SeedPaletteColors == {SeedColor(1, 1, "#FF5733"), SeedColor(2, 2, "#112233")}

Init ==
    /\ ColorPalettes = SeedColorPalettes
    /\ PaletteColors = SeedPaletteColors
    /\ reqs = [r \in Reqs |-> Idle]
    /\ clock = 1
    /\ issued = {c.id : c \in SeedPaletteColors}

Next ==
    \E r \in Reqs :
      \/ createPalette_call(r)
      \/ createPalette_insert(r)
      \/ updatePalette_call(r)
      \/ updatePalette_set(r)
      \/ updatePalette_update(r)
      \/ listPalettes_call(r)
      \/ createPaletteColor_call(r)
      \/ createPaletteColor_values(r)
      \/ createPaletteColor_insert(r)
      \/ updatePaletteColor_call(r)
      \/ updatePaletteColor_select(r)
      \/ updatePaletteColor_update(r)
      \/ deletePaletteColor_call(r)
      \/ deletePaletteColor_delete(r)
      \/ listPaletteColors_call(r)
      \/ listPaletteColors_select(r)

Spec == Init /\ [][Next]_vars

----------------------------------------------------------------------------
(* Vocabulary of the properties *)

ResolverOps ==
    {"updatePalette", "createPaletteColor", "updatePaletteColor",
     "deletePaletteColor", "listPaletteColors"}

AllOps == ResolverOps \cup {"createPalette", "listPalettes"}

\* The palette id a request hands to the ownership resolver.
PaletteIdOf(q) == IF q.op = "updatePalette" THEN q.input.id ELSE q.input.paletteId

\* The handler body of q has been entered (validation let the input through).
HandlerRan(q) == q.pc # "idle" /\ q.result # ValidationError

\* In this step request r is received: validation, identity gate, first db call.
Enters(r) == reqs[r].pc = "idle" /\ reqs'[r].pc # "idle"

\* In this step request r, standing at `pc`, makes its db call.
Steps(r, op, pc) ==
    /\ reqs[r].op = op
    /\ reqs[r].pc = pc
    /\ reqs'[r].pc # pc

PalettesWithId(id) == {p \in ColorPalettes : p.id = id}

Accessible(p, userId) == p.userId = userId \/ p.isSystem

----------------------------------------------------------------------------
(* C1: in each of the seven operations, a call without a user whose handler *)
(* runs ends UNAUTHORIZED as the handler's first step: it has made no db    *)
(* call (no read or write of either table, no ownership lookup) and is not  *)
(* left waiting at a later step.                                            *)

C1_UnauthorizedFirst ==
    \A r \in Reqs :
      LET q == reqs[r]
      IN  (HandlerRan(q) /\ q.context.user = {}) =>
            /\ q.op \in AllOps
            /\ q.pc = "done"
            /\ q.result.code = "UNAUTHORIZED"
            /\ q.dbCalls = 0

\* An unauthenticated deletePaletteColor naming an existing color of a system
\* palette (which the resolver would let anyone act on) was turned away.
C1_Witness ==
    \E r \in Reqs :
      /\ reqs[r].op = "deletePaletteColor"
      /\ reqs[r].pc = "done"
      /\ reqs[r].context.user = {}
      /\ reqs[r].result.code = "UNAUTHORIZED"
      /\ \E c \in PaletteColors :
           /\ c.id = reqs[r].input.id
           /\ c.paletteId = reqs[r].input.paletteId
           /\ \E p \in PalettesWithId(c.paletteId) : p.isSystem

----------------------------------------------------------------------------
(* C2 *)

C2_ResolverStep ==
    \A r \in Reqs :
      LET q == reqs'[r]
          found == PalettesWithId(PaletteIdOf(q))
      IN  (Enters(r) /\ q.op \in ResolverOps /\ HandlerRan(q) /\ q.context.user # {}) =>
            /\ found = {} =>
                 q.pc = "done" /\ q.result.code = "NOT_FOUND"
            /\ (\E p \in found : p.userId # Val(q.context.user) /\ ~p.isSystem) =>
                 q.pc = "done" /\ q.result.code = "FORBIDDEN"
            /\ q.pc # "done" =>
                 \E p \in found : Accessible(p, Val(q.context.user))

C2_AtRowLogic ==
    \A r \in Reqs :
      LET q == reqs[r]
      IN  (q.op \in ResolverOps /\ q.pc \notin {"idle", "done"}) =>
            \E p \in PalettesWithId(PaletteIdOf(q)) : Accessible(p, Val(q.context.user))

(* C2: for updatePalette, createPaletteColor, updatePaletteColor,           *)
(* deletePaletteColor and listPaletteColors called by an authenticated      *)
(* caller: no palette with the supplied id gives NOT_FOUND; a palette of    *)
(* another user that is not a system palette gives FORBIDDEN; the           *)
(* operation's row logic is reached only when the palette exists and is the *)
(* caller's or a system palette, and a request is at its row logic only     *)
(* for such a palette.                                                      *)
C2_OwnershipResolver == [][C2_ResolverStep]_vars /\ []C2_AtRowLogic

\* u2 was refused u1's palette, and u1 is at the row logic of a color operation
\* on a system palette of u2.
C2_Witness ==
    \E r1, r2 \in Reqs :
      /\ reqs[r1].op \in ResolverOps
      /\ reqs[r1].result.code = "FORBIDDEN"
      /\ reqs[r1].context.user = {"u2"}
      /\ reqs[r2].op = "updatePaletteColor"
      /\ reqs[r2].pc = "update"
      /\ reqs[r2].context.user = {"u1"}
      /\ \E p \in PalettesWithId(reqs[r2].input.paletteId) : p.userId = "u2"

----------------------------------------------------------------------------
(* C3 *)

C3_Step ==
    \A p \in ColorPalettes :
      p \notin ColorPalettes' =>
        \E r \in Reqs :
          /\ Steps(r, "updatePalette", "update")
          /\ reqs[r].input.id = p.id
          /\ reqs[r].context.user = {p.userId}

(* C3: a palette is mutated only by its owner: every step that changes a    *)
(* row of ColorPalettes is the update of an updatePalette request whose     *)
(* caller is the row's userId.                                              *)
C3_MutatedOnlyByOwner == [][C3_Step]_vars

----------------------------------------------------------------------------
(* C4 *)

C4_Step ==
    \A r \in Reqs :
      LET q == reqs[r]
      IN  (/\ q.op \in {"updatePaletteColor", "deletePaletteColor"}
           /\ q.pc \in {"select", "update", "delete"}
           /\ reqs'[r].pc # q.pc) =>
            \A c \in PaletteColors :
              (c.id = q.input.id /\ c.paletteId # q.input.paletteId) =>
                /\ reqs'[r].pc = "done"
                /\ reqs'[r].result = Failure("NOT_FOUND", "Palette color not found.")
                /\ c \in PaletteColors'
                /\ c \in {d \in PaletteColors' : d.paletteId = c.paletteId}
                /\ PaletteColors' = PaletteColors

(* C4: an updatePaletteColor or deletePaletteColor past the resolver that   *)
(* names an existing color whose stored paletteId differs from the supplied *)
(* one ends NOT_FOUND; the step that ends it leaves the color row in place  *)
(* and unchanged, so that the rows of its true parent still contain it.     *)
C4_MismatchedParent == [][C4_Step]_vars

\* A delete and an update, both by callers with access to the named palette,
\* each naming an existing color of another palette, both ended NOT_FOUND.
C4_Witness ==
    \E r1, r2 \in Reqs :
      /\ reqs[r1].op = "deletePaletteColor"
      /\ reqs[r2].op = "updatePaletteColor"
      /\ \A r \in {r1, r2} :
           /\ reqs[r].pc = "done"
           /\ reqs[r].dbCalls = 2
           /\ reqs[r].result.code = "NOT_FOUND"
           /\ \E c \in PaletteColors :
                c.id = reqs[r].input.id /\ c.paletteId # reqs[r].input.paletteId

----------------------------------------------------------------------------
(* C5 *)

SystemIds(palettes) == {p.id : p \in {x \in palettes : x.isSystem}}

(* C5: in every reachable state the palettes with isSystem = TRUE are the   *)
(* system palettes of the pre-seeded store: no operation creates one, and   *)
(* none changes isSystem of a row.                                          *)
C5_SystemOnlySeeded == SystemIds(ColorPalettes) = SystemIds(SeedColorPalettes)

\* A palette was created from a request carrying isSystem: true, and it is
\* stored next to a seeded system palette.
C5_Witness ==
    /\ \E r \in Reqs :
         /\ reqs[r].op = "createPalette"
         /\ reqs[r].pc = "done"
         /\ reqs[r].input.isSystem = {TRUE}
         /\ reqs[r].result.success
         /\ reqs[r].result.data.rows \subseteq ColorPalettes
    /\ SystemIds(ColorPalettes) # {}

----------------------------------------------------------------------------
(* C6 *)

C6_Step ==
    \A r \in Reqs :
      Steps(r, "createPalette", "insert") =>
        LET added == ColorPalettes' \ ColorPalettes
            input == reqs[r].input
        IN  /\ Cardinality(added) = 1
            /\ ColorPalettes \subseteq ColorPalettes'
            /\ PaletteColors' = PaletteColors
            /\ reqs'[r].pc = "done"
            /\ reqs'[r].result.success
            /\ reqs'[r].result.data.rows = added
            /\ \A p \in added :
                 /\ PalettesWithId(p.id) = {}
                 /\ {p.userId} = reqs[r].context.user
                 /\ p.name = input.name
                 /\ p.isFavorite = (input.isFavorite = {TRUE})
                 /\ p.isSystem = FALSE
                 /\ p.createdAt = p.updatedAt

(* C6: the insert of a createPalette by caller u adds exactly one row to    *)
(* ColorPalettes and answers with it: its id is the id of no palette        *)
(* stored before, userId = u, name is the input's, isFavorite is the        *)
(* input's or FALSE when absent, isSystem = FALSE whatever the input, and   *)
(* createdAt = updatedAt; every palette stored before and every color is    *)
(* unchanged.                                                               *)
C6_CreatePalette == [][C6_Step]_vars

\* Two palettes were created, the clock having advanced between the clock
\* reading of one and its insert: one with empty optional fields, one as a
\* favorite.
C6_Witness ==
    \E r1, r2 \in Reqs :
      /\ r1 # r2
      /\ \A r \in {r1, r2} :
           /\ reqs[r].op = "createPalette"
           /\ reqs[r].pc = "done"
           /\ reqs[r].result.success
           /\ reqs[r].result.data.rows \subseteq ColorPalettes
      /\ reqs[r1].input.isFavorite = {}
      /\ reqs[r2].input.isFavorite = {TRUE}
      /\ reqs[r1].now < clock

----------------------------------------------------------------------------
(* C7 *)

C7_Expected(p, input, now) ==
    /\ p.id = input.id
    /\ \E old \in PalettesWithId(input.id) :
         /\ p.name = (IF input.name = {} THEN old.name ELSE Val(input.name))
         /\ p.description = (IF input.description = {} THEN old.description
                                                       ELSE input.description)
         /\ p.sourceType = (IF input.sourceType = {} THEN old.sourceType
                                                     ELSE input.sourceType)
         /\ p.sourceReference = (IF input.sourceReference = {} THEN old.sourceReference
                                                               ELSE input.sourceReference)
         /\ p.isFavorite = (IF input.isFavorite = {} THEN old.isFavorite
                                                     ELSE Val(input.isFavorite))
         /\ p.updatedAt = now
         /\ p.userId = old.userId
         /\ p.isSystem = old.isSystem
         /\ p.createdAt = old.createdAt

C7_Step ==
    \A r \in Reqs :
      Steps(r, "updatePalette", "update") =>
        LET input == reqs[r].input
            others == {p \in ColorPalettes : p.id # input.id}
            written == ColorPalettes' \ others
        IN  /\ others \subseteq ColorPalettes'
            /\ Cardinality(written) = 1
            /\ \A p \in written : C7_Expected(p, input, reqs[r].now)
            /\ PaletteColors' = PaletteColors
            /\ reqs'[r].result.success
            /\ reqs'[r].result.data.rows = written

(* C7: the write of an updatePalette changes, in the row with the supplied  *)
(* id, exactly those of name, description, sourceType, sourceReference and  *)
(* isFavorite that the request carries, to the carried values, and sets     *)
(* updatedAt to the time the handler read; absent fields keep their value,  *)
(* id, userId, isSystem and createdAt are unchanged, no other palette and   *)
(* no color is changed, and the written row is the answer.                  *)
C7_UpdatePaletteFrame == [][C7_Step]_vars

\* A palette that carries a description (set by an earlier update) was then
\* updated by a request carrying isFavorite only, and kept the description.
C7_Witness ==
    \E r1, r2 \in Reqs :
      /\ reqs[r1].op = "updatePalette" /\ reqs[r1].pc = "done"
      /\ reqs[r2].op = "updatePalette" /\ reqs[r2].pc = "done"
      /\ reqs[r1].input.id = reqs[r2].input.id
      /\ reqs[r1].input.description # {}
      /\ reqs[r2].input.isFavorite = {TRUE}
      /\ reqs[r2].input.description = {}
      /\ reqs[r2].result.data.rows \subseteq ColorPalettes
      /\ \E p \in reqs[r2].result.data.rows :
           p.description # {} /\ p.isFavorite /\ p.updatedAt > p.createdAt

----------------------------------------------------------------------------
(* C8 *)

C8_Expected(c, input) ==
    \E old \in {d \in PaletteColors : d.id = input.id} :
      /\ c.id = old.id
      /\ c.paletteId = old.paletteId
      /\ c.createdAt = old.createdAt
      /\ c.orderIndex = (IF input.orderIndex = {} THEN old.orderIndex ELSE input.orderIndex)
      /\ c.hexValue = (IF input.hexValue = {} THEN old.hexValue ELSE Val(input.hexValue))
      /\ c.role = (IF input.role = {} THEN old.role ELSE input.role)
      /\ c.label = (IF input.label = {} THEN old.label ELSE input.label)
      /\ c.contrastOnLight = (IF input.contrastOnLight = {} THEN old.contrastOnLight
                                                            ELSE input.contrastOnLight)
      /\ c.contrastOnDark = (IF input.contrastOnDark = {} THEN old.contrastOnDark
                                                          ELSE input.contrastOnDark)

C8_Step ==
    \A r \in Reqs :
      Steps(r, "updatePaletteColor", "update") =>
        LET input == reqs[r].input
            others == {c \in PaletteColors : c.id # input.id}
            written == PaletteColors' \ others
        IN  /\ others \subseteq PaletteColors'
            /\ Cardinality(written) = Cardinality(PaletteColors \ others)
            /\ \A c \in written : C8_Expected(c, input)
            /\ ColorPalettes' = ColorPalettes
            /\ reqs'[r].result.success

(* C8: the write of an updatePaletteColor changes, in the color row with    *)
(* the supplied id, exactly those of orderIndex, hexValue, role, label,     *)
(* contrastOnLight and contrastOnDark that the request carries; absent      *)
(* fields keep their value, id, paletteId and createdAt are unchanged, and  *)
(* no other color and no palette (the parent's updatedAt included) is       *)
(* changed.                                                                 *)
C8_UpdateColorFrame == [][C8_Step]_vars

\* A color that carries a role (set by an earlier update) was then updated by
\* a request carrying hexValue only, and kept the role; its palette still has
\* the updatedAt of the seeded store.
C8_Witness ==
    \E r1, r2 \in Reqs :
      /\ reqs[r1].op = "updatePaletteColor" /\ reqs[r1].pc = "done"
      /\ reqs[r2].op = "updatePaletteColor" /\ reqs[r2].pc = "done"
      /\ reqs[r1].input.id = reqs[r2].input.id
      /\ reqs[r1].input.role # {}
      /\ reqs[r2].input.hexValue = {"#000000"}
      /\ reqs[r2].result.data.rows \subseteq PaletteColors
      /\ \E c \in reqs[r2].result.data.rows :
           /\ c.role # {}
           /\ c.hexValue = "#000000"
           /\ PalettesWithId(c.paletteId) \subseteq SeedColorPalettes

----------------------------------------------------------------------------
(* C9 *)

C9_Step ==
    \A r \in Reqs :
      LET q == reqs'[r]
          items == q.result.data.rows
      IN  (Enters(r) /\ q.op = "listPalettes" /\ q.context.user # {}) =>
            /\ q.pc = "done"
            /\ q.result.success
            /\ items \subseteq ColorPalettes
            /\ \A p \in ColorPalettes :
                 p \in items <=>
                   /\ Accessible(p, Val(q.context.user))
                   /\ (q.input.favoritesOnly => p.isFavorite)
            /\ ~ \E p \in items : p.userId # Val(q.context.user) /\ ~p.isSystem
            /\ q.result.data.total = {Cardinality(items)}
            /\ ColorPalettes' = ColorPalettes
            /\ PaletteColors' = PaletteColors

(* C9: the answer of listPalettes to caller u holds exactly the palettes of *)
(* the store that are u's or system palettes and, with favoritesOnly, are   *)
(* favorites: each such palette is in it, nothing else is, no non-system    *)
(* palette of another user ever is, total is the number of items, and the   *)
(* store is unchanged.                                                      *)
C9_ListPalettes == [][C9_Step]_vars

\* u1 created a favorite palette and then listed favorites only: the answer
\* holds the new palette and the system palette of u2, total 2, and not the
\* palette of u1 that is no favorite.
C9_Witness ==
    \E r1, r2 \in Reqs :
      /\ reqs[r1].op = "createPalette"
      /\ reqs[r1].context.user = {"u1"}
      /\ reqs[r1].result.success
      /\ reqs[r2].op = "listPalettes"
      /\ reqs[r2].context.user = {"u1"}
      /\ reqs[r2].input.favoritesOnly
      /\ reqs[r2].result.data.total = {2}
      /\ reqs[r1].result.data.rows \subseteq reqs[r2].result.data.rows
      /\ \E p \in reqs[r2].result.data.rows : p.userId = "u2" /\ p.isSystem
      /\ \E p \in ColorPalettes \ reqs[r2].result.data.rows : p.userId = "u1"

----------------------------------------------------------------------------
(* C10 *)

C10_Step ==
    \A r \in Reqs :
      Steps(r, "deletePaletteColor", "delete") =>
        LET input == reqs[r].input
            removed == PaletteColors \ PaletteColors'
        IN  /\ PaletteColors' \subseteq PaletteColors
            /\ ColorPalettes' = ColorPalettes
            /\ \A c \in removed : c.id = input.id /\ c.paletteId = input.paletteId
            /\ reqs'[r].pc = "done"
            /\ reqs'[r].result.success <=> Cardinality(removed) = 1
            /\ removed = {} <=>
                 reqs'[r].result = Failure("NOT_FOUND", "Palette color not found.")
            /\ ~ \E c \in PaletteColors' : c.id = input.id /\ c.paletteId = input.paletteId

\* The requests that have made their delete for the color (id, paletteId).
DeletesMade(id, paletteId) ==
    {r \in Reqs : /\ reqs[r].op = "deletePaletteColor"
                  /\ reqs[r].pc = "done"
                  /\ reqs[r].dbCalls = 2
                  /\ reqs[r].input.id = id
                  /\ reqs[r].input.paletteId = paletteId}

C10_OneWinner ==
    \A c \in SeedPaletteColors :
      LET made == DeletesMade(c.id, c.paletteId)
          won == {r \in made : reqs[r].result.success}
      IN  made # {} =>
            /\ Cardinality(won) = 1
            /\ \A r \in made \ won : reqs[r].result.code = "NOT_FOUND"

(* C10: the delete of a deletePaletteColor answers success exactly when it  *)
(* removed the one row with the supplied id and paletteId, and NOT_FOUND    *)
(* when it removed none; it removes no other color and changes no palette.  *)
(* Of the deletePaletteColor requests for one color, however interleaved,   *)
(* at most one succeeds, and of those that have made their delete exactly   *)
(* one has succeeded and the others ended NOT_FOUND.                        *)
C10_DeleteColor == [][C10_Step]_vars /\ []C10_OneWinner

\* Two requests have made their delete for the same color: one has succeeded,
\* the other ended NOT_FOUND, and the other color and both palettes are still
\* stored.
C10_Witness ==
    \E r1, r2 \in Reqs :
      /\ r1 # r2
      /\ reqs[r1].op = "deletePaletteColor" /\ reqs[r1].result.success
      /\ reqs[r2].op = "deletePaletteColor" /\ reqs[r2].result.code = "NOT_FOUND"
      /\ reqs[r1].input = reqs[r2].input
      /\ reqs[r2].dbCalls = 2
      /\ Cardinality(PaletteColors) = 1
      /\ ColorPalettes = SeedColorPalettes

----------------------------------------------------------------------------
(* C11 *)

C11_Step ==
    \A r \in Reqs :
      Steps(r, "listPaletteColors", "select") =>
        LET q == reqs'[r]
            items == q.result.data.rows
            paletteId == reqs[r].input.paletteId
        IN  /\ q.pc = "done"
            /\ q.result.success
            /\ \A c \in PaletteColors : c \in items <=> c.paletteId = paletteId
            /\ items \subseteq PaletteColors
            /\ q.result.data.total = {Cardinality(items)}
            /\ \A r1 \in Reqs :
                 (/\ reqs[r1].op = "createPaletteColor"
                  /\ reqs[r1].result.success
                  /\ reqs[r1].input.paletteId = paletteId
                  /\ PaletteColors \subseteq reqs[r1].result.data.rows) =>
                   /\ Cardinality(items) = 1
                   /\ \A c \in items : c.hexValue = reqs[r1].input.hexValue

----------------------------------------------------------------------------
(* C12 *)

\* Where the row logic of an operation that goes through the resolver starts.
RowLogicPc(op) ==
    CASE op = "updatePalette" -> "set"
      [] op = "createPaletteColor" -> "values"
      [] op = "updatePaletteColor" -> "select"
      [] op = "deletePaletteColor" -> "delete"
      [] op = "listPaletteColors" -> "select"

\* The request q as the owner of palette p would have sent it.
AsOwner(q, p) == [q EXCEPT !.context = [user |-> {p.userId}]]

C12_Step ==
    \A r \in Reqs :
      LET q == reqs'[r]
      IN  (Enters(r) /\ q.op \in ResolverOps /\ HandlerRan(q) /\ q.context.user # {}) =>
            \A p \in PalettesWithId(PaletteIdOf(q)) :
              p.isSystem =>
                /\ getOwnedPalette(p.id, p.userId).success
                /\ q.pc = RowLogicPc(q.op)
                /\ q.result = Pending
                /\ AsOwner(q, p) =
                     Started(q.op, [user |-> {p.userId}], q.input, RowLogicPc(q.op),
                             0, 1, Pending)
                /\ ColorPalettes' = ColorPalettes
                /\ PaletteColors' = PaletteColors

(* C12: for a palette with isSystem = TRUE, an updatePalette,               *)
(* createPaletteColor, updatePaletteColor, deletePaletteColor or            *)
(* listPaletteColors by any authenticated caller passes the resolver as the *)
(* owner's does: nothing is written and the request stands at the start of  *)
(* the operation's row logic exactly as the owner's request would, its      *)
(* context apart (the row logic reads the input and the clock only).        *)
C12_SystemAsOwner == [][C12_Step]_vars

\* u1, not the owner, deleted a color of the system palette of u2 and updated
\* the palette or added a color to it.
C12_Witness ==
    \E r1, r2 \in Reqs :
      /\ r1 # r2
      /\ reqs[r1].op = "deletePaletteColor"
      /\ reqs[r2].op \in {"updatePalette", "createPaletteColor"}
      /\ \A r \in {r1, r2} :
           /\ reqs[r].context.user = {"u1"}
           /\ reqs[r].result.success
           /\ \E p \in PalettesWithId(PaletteIdOf(reqs[r])) :
                p.isSystem /\ p.userId = "u2"

----------------------------------------------------------------------------
(* C13 *)

StoreChanges == ColorPalettes' # ColorPalettes \/ PaletteColors' # PaletteColors

C13_Step ==
    \A r \in Reqs :
      reqs'[r] # reqs[r] =>
        /\ StoreChanges => reqs'[r].pc = "done" /\ reqs'[r].result.success
        /\ reqs[r].pc = "done" => FALSE
        /\ ~reqs'[r].result.success => ~StoreChanges

C13_FailedMadeNoCall ==
    \A r \in Reqs :
      LET q == reqs[r]
      IN  /\ (q.pc = "done" /\ q.result.code \in {"BAD_REQUEST", "UNAUTHORIZED"}) =>
               q.dbCalls = 0
          /\ (q.pc = "done" /\ q.result.code = "FORBIDDEN") => q.dbCalls = 1
          /\ q.pc # "done" => q.result = Pending
          /\ q.pc = "done" =>
               q.result.code \in {"OK", "BAD_REQUEST", "UNAUTHORIZED", "FORBIDDEN",
                                  "NOT_FOUND"}

(* C13: a request that ends in a failure (validation error, UNAUTHORIZED,   *)
(* FORBIDDEN or NOT_FOUND) has written nothing: every step of a request     *)
(* that changes a table is its last and ends it in success, the step that   *)
(* ends a request in failure changes neither table, and a finished request  *)
(* takes no further step.                                                   *)
C13_FailureWritesNothing == [][C13_Step]_vars /\ []C13_FailedMadeNoCall

\* A createPaletteColor refused FORBIDDEN and a deletePaletteColor that found
\* no row to delete have ended, and the store is the seeded one.
C13_Witness ==
    \E r1, r2 \in Reqs :
      /\ reqs[r1].op = "createPaletteColor"
      /\ reqs[r1].result.code = "FORBIDDEN"
      /\ reqs[r2].op = "deletePaletteColor"
      /\ reqs[r2].result.code = "NOT_FOUND"
      /\ reqs[r2].dbCalls = 2
      /\ ColorPalettes = SeedColorPalettes
      /\ PaletteColors = SeedPaletteColors

----------------------------------------------------------------------------
(* C14 *)

UpdateOps == {"updatePalette", "updatePaletteColor"}

\* The table an update operation writes.
TableOf(op) == IF op = "updatePalette" THEN ColorPalettes ELSE PaletteColors

\* A palette row with its updatedAt left out of the comparison.
ModuloUpdatedAt(rows) == {[p EXCEPT !.updatedAt = 0] : p \in rows}

\* Request r1 has succeeded, the row it wrote is stored as r1 returned it, and
\* the request q is the same request of the same caller, applied next.
AppliedAgain(r1, q) ==
    /\ reqs[r1].pc = "done"
    /\ reqs[r1].op \in UpdateOps
    /\ reqs[r1].result.success
    /\ reqs[r1].result.data.rows # {}
    /\ reqs[r1].result.data.rows \subseteq TableOf(reqs[r1].op)
    /\ q.op = reqs[r1].op
    /\ q.input = reqs[r1].input
    /\ q.context = reqs[r1].context

C14_Step ==
    \A r1, r2 \in Reqs :
      (r1 # r2 /\ reqs'[r2] # reqs[r2] /\ AppliedAgain(r1, reqs'[r2])) =>
        /\ reqs'[r2].result.code \in {"PENDING", "OK"}
        /\ PaletteColors' = PaletteColors
        /\ ModuloUpdatedAt(ColorPalettes') = ModuloUpdatedAt(ColorPalettes)
        /\ reqs'[r2].pc = "done" =>
             /\ reqs'[r2].result.success
             /\ IF reqs'[r2].op = "updatePalette"
                  THEN ModuloUpdatedAt(reqs'[r2].result.data.rows)
                         = ModuloUpdatedAt(reqs[r1].result.data.rows)
                  ELSE reqs'[r2].result.data.rows = reqs[r1].result.data.rows

(* C14: partial update idempotence: when an updatePalette or an             *)
(* updatePaletteColor has succeeded and the same request is applied again   *)
(* by the same caller to the row as the first left it, no step of the       *)
(* second fails, no field of any row but the palette's updatedAt changes,   *)
(* and the second succeeds with the row the first returned, updatedAt       *)
(* apart.                                                                   *)
C14_UpdateIdempotent == [][C14_Step]_vars

\* The same updatePalette request was applied twice by the same caller: both
\* succeeded, and the rows they returned differ in updatedAt only.
C14_Witness ==
    \E r1, r2 \in Reqs :
      /\ r1 # r2
      /\ reqs[r1].op = "updatePalette" /\ reqs[r2].op = "updatePalette"
      /\ reqs[r1].input = reqs[r2].input
      /\ reqs[r1].context = reqs[r2].context
      /\ reqs[r1].result.success /\ reqs[r2].result.success
      /\ reqs[r1].input.isFavorite = {TRUE}
      /\ reqs[r1].result.data.rows # reqs[r2].result.data.rows
      /\ ModuloUpdatedAt(reqs[r1].result.data.rows)
           = ModuloUpdatedAt(reqs[r2].result.data.rows)
      /\ reqs[r2].result.data.rows \subseteq ColorPalettes

----------------------------------------------------------------------------
(* C15 *)

\* The number of updatable fields an update request carries.
Updatable(q) ==
    IF q.op = "updatePalette"
      THEN Count(q.input.name) + Count(q.input.description) + Count(q.input.sourceType)
             + Count(q.input.sourceReference) + Count(q.input.isFavorite)
      ELSE Count(q.input.orderIndex) + Count(q.input.hexValue) + Count(q.input.role)
             + Count(q.input.label) + Count(q.input.contrastOnLight)
             + Count(q.input.contrastOnDark)

(* C15: an updatePalette request that carries nothing besides id, and an    *)
(* updatePaletteColor request that carries nothing besides id and           *)
(* paletteId, ends in a validation error without the handler having run:    *)
(* it has made no db call; a request that carries at least one updatable    *)
(* field, be it false or the empty string, is not rejected by validation.   *)
C15_EmptyUpdateRejected ==
    \A r \in Reqs :
      LET q == reqs[r]
      IN  q.op \in UpdateOps =>
            /\ Updatable(q) = 0 =>
                 /\ q.pc = "done"
                 /\ q.result = ValidationError
                 /\ q.dbCalls = 0
            /\ Updatable(q) >= 1 => q.result # ValidationError

\* An updatePaletteColor without any updatable field was rejected, and an
\* updatePalette carrying only isFavorite: false went through and succeeded.
C15_Witness ==
    \E r1, r2 \in Reqs :
      /\ reqs[r1].op = "updatePaletteColor"
      /\ Updatable(reqs[r1]) = 0
      /\ reqs[r1].result = ValidationError
      /\ reqs[r1].context.user # {}
      /\ reqs[r2].op = "updatePalette"
      /\ reqs[r2].input.isFavorite = {FALSE}
      /\ reqs[r2].result.success

----------------------------------------------------------------------------
(* C16: referential integrity: in every reachable state the paletteId of    *)
(* every PaletteColors row is the id of a ColorPalettes row.                *)

C16_ReferentialIntegrity ==
    \A c \in PaletteColors : PalettesWithId(c.paletteId) # {}

\* A createPaletteColor naming a palette that does not exist ended NOT_FOUND,
\* and the color another createPaletteColor inserted is stored.
C16_Witness ==
    \E r1, r2 \in Reqs :
      /\ reqs[r1].op = "createPaletteColor"
      /\ reqs[r1].result.code = "NOT_FOUND"
      /\ PalettesWithId(reqs[r1].input.paletteId) = {}
      /\ reqs[r2].op = "createPaletteColor"
      /\ reqs[r2].result.success
      /\ reqs[r2].result.data.rows \subseteq PaletteColors
      /\ PaletteColors \ SeedPaletteColors # {}

----------------------------------------------------------------------------
(* C17: the required text attributes stay non-empty: in every reachable     *)
(* state the name of every palette and the hexValue of every color is a     *)
(* non-empty string.                                                        *)

C17_RequiredTextNonEmpty ==
    /\ \A p \in ColorPalettes : p.name # ""
    /\ \A c \in PaletteColors : c.hexValue # ""

----------------------------------------------------------------------------
(* C18: every updatePaletteColor that returns success returns the updated   *)
(* color record: exactly one row, with the supplied id and paletteId and    *)
(* carrying the requested field values, whatever other requests ran         *)
(* between its existence check and its write.                               *)

C18_SuccessReturnsUpdated ==
    \A r \in Reqs :
      LET q == reqs[r]
      IN  (q.op = "updatePaletteColor" /\ q.pc = "done" /\ q.result.success) =>
            \E c \in q.result.data.rows :
              /\ q.result.data.rows = {c}
              /\ c.id = q.input.id
              /\ c.paletteId = q.input.paletteId
              /\ c = ColorSet(c, q.input)

----------------------------------------------------------------------------
(* C19 *)

ColorOps ==
    {"createPaletteColor", "updatePaletteColor", "deletePaletteColor",
     "listPaletteColors"}

\* The color's parent palette is owned by the user or system-shared.
ParentAccessible(c, userId) ==
    \E p \in PalettesWithId(c.paletteId) : Accessible(p, userId)

\* The color rows a step creates, modifies or deletes.
ColorsTouched == (PaletteColors \ PaletteColors') \cup (PaletteColors' \ PaletteColors)

\* The color rows a step of request r returns to its caller.
ColorsReturned(r) ==
    IF reqs'[r].op \in ColorOps /\ reqs'[r].result # reqs[r].result
      THEN reqs'[r].result.data.rows
      ELSE {}

C19_Step ==
    \A r \in Reqs :
      reqs'[r] # reqs[r] =>
        \A c \in ColorsTouched \cup ColorsReturned(r) :
          \E u \in reqs'[r].context.user : ParentAccessible(c, u)

(* C19: isolation of colors between users: every color row a step of a     *)
(* request creates, modifies, deletes or returns has a parent palette that  *)
(* the request's user owns or that is system-shared, whatever color id and  *)
(* palette id the request supplies.                                         *)
C19_ColorIsolation == [][C19_Step]_vars

\* u2 named the color of u1's palette together with u2's own palette, in an
\* updatePaletteColor and in a deletePaletteColor: both ended NOT_FOUND and
\* the color is stored as seeded.
C19_Witness ==
    \E r1, r2 \in Reqs :
      /\ reqs[r1].op = "updatePaletteColor"
      /\ reqs[r2].op = "deletePaletteColor"
      /\ \A r \in {r1, r2} :
           /\ reqs[r].context.user = {"u2"}
           /\ reqs[r].input.id = 1
           /\ reqs[r].input.paletteId = 2
           /\ reqs[r].pc = "done"
           /\ reqs[r].dbCalls = 2
           /\ reqs[r].result.code = "NOT_FOUND"
      /\ SeedColor(1, 1, "#FF5733") \in PaletteColors

----------------------------------------------------------------------------
(* C20 *)

\* Every palette is stamped no earlier than it was created.
C20_UpdatedAfterCreated == \A p \in ColorPalettes : p.updatedAt >= p.createdAt

\* Request r writes after an updatePalette of the same palette that read the
\* clock later than r has been applied.
Superseded(r) ==
    \E r2 \in Reqs \ {r} :
      /\ reqs[r2].op = "updatePalette"
      /\ reqs[r2].pc = "done"
      /\ reqs[r2].result.success
      /\ reqs[r2].input.id = reqs[r].input.id
      /\ reqs[r2].now > reqs[r].now

C20_NeverDecreasesStep ==
    \A p \in ColorPalettes, p2 \in ColorPalettes' :
      p.id = p2.id => p2.updatedAt >= p.updatedAt

(* C20 as stated: a palette's updatedAt never decreases from one state to   *)
(* the next and is never earlier than its createdAt.                        *)
C20_UpdatedAtNeverDecreases ==
    [][C20_NeverDecreasesStep]_vars /\ []C20_UpdatedAfterCreated

C20_Step ==
    \A p \in ColorPalettes, p2 \in ColorPalettes' :
      p.id = p2.id =>
        \/ p2.updatedAt >= p.updatedAt
        \/ \E r \in Reqs :
             /\ Steps(r, "updatePalette", "update")
             /\ reqs[r].input.id = p.id
             /\ Superseded(r)

(* C20: with a clock that never goes backwards, a palette's updatedAt is    *)
(* never earlier than its createdAt in any reachable state, and no step     *)
(* decreases it except the write of an updatePalette made after another     *)
(* updatePalette of the same palette, which read the clock later, has been  *)
(* applied.                                                                 *)
C20_UpdatedAtMonotoneUnlessSuperseded ==
    [][C20_Step]_vars /\ []C20_UpdatedAfterCreated

\* Two updatePalette requests on the same palette read the clock at different
\* times and both succeeded; the palette carries the later reading, after its
\* createdAt.
C20_Witness ==
    \E r1, r2 \in Reqs :
      /\ reqs[r1].op = "updatePalette" /\ reqs[r2].op = "updatePalette"
      /\ reqs[r1].input.id = reqs[r2].input.id
      /\ reqs[r1].result.success /\ reqs[r2].result.success
      /\ reqs[r1].now < reqs[r2].now
      /\ \E p \in PalettesWithId(reqs[r1].input.id) :
           /\ p.updatedAt = reqs[r2].now
           /\ p.updatedAt > p.createdAt

====
